---- MODULE Spec2Model ----
(***************************************************************************)
(* Batch dispatch engine of the KoBo uploader (src/main.py, src/mainv2.py).*)
(* main() partitions the rows of the spreadsheet into batches, and         *)
(* process_batch() submits every row of a batch to a ThreadPoolExecutor,   *)
(* whose workers run send_request_with_retry(); the outcomes are logged in *)
(* the as_completed loop, and main() sleeps after every batch.             *)
(***************************************************************************)
EXTENDS Integers, Sequences, FiniteSets, TLC

(* ------------------------------ bounds -------------------------------- *)
MaxRecords == 3        \* rows of the spreadsheet: 0..MaxRecords
MaxBatch == 2          \* config['batch_size']: 1..MaxBatch
MaxConc == 2           \* config['concurrency_level']: 1..MaxConc
MaxCfgRetries == 1     \* a 'max_retries' option of config.json: 0..MaxCfgRetries
MaxFlaky == 3          \* a flaky endpoint answers 503 to 0..MaxFlaky attempts
MaxBadBatch == 1       \* an invalid batch_size: -MaxBadBatch..0
MaxSleep == 1          \* a 'dynamic_sleep_interval' option: 0..MaxSleep
MaxFairRecords == 2    \* rows of the spreadsheet in the runs checked for termination

(* ------------------------- program constants -------------------------- *)
DefaultMaxRetries == 3          \* max_retries=3 of send_request_with_retry
CREATED == 201                  \* the status process_batch takes as success
ERR == 0                        \* an attempt that ends in a transport error
NONE == 0 - 1                   \* send_request_with_retry returned None
UNSET == 0 - 2                  \* the future holds no result yet
ABSENT == 0 - 1                 \* an option config.json does not have
DefaultSleep == 5               \* config.get('dynamic_sleep_interval', 5)
RetryAfter == 1000              \* added to a status: a Retry-After header

\* Retry.RETRY_AFTER_STATUS_CODES of urllib3.
RETRY_AFTER_STATUS_CODES == {413, 429, 503}

\* The status code of an answer, and whether it has a Retry-After header.
Status(resp) == resp % RetryAfter
HasRetryAfter(resp) == resp >= RetryAfter

status_forcelist == {500, 502, 503, 504}

\* What the endpoint may answer to one attempt: a status code or ERR.
Responses == {201, 200, 400, 500, 503, ERR}

VARIABLES
    variant,     \* "main" (src/main.py) or "mainv2" (src/mainv2.py)
    config,      \* config.json: batch_size, concurrency_level, max_retries,
                 \* dynamic_sleep_interval
    token,       \* whether the API token can be resolved
    sheet,       \* the spreadsheet: "full", "nan" or "nocolumn"
    nRecords,    \* len(df_root)
    endpoint,    \* how the remote endpoint behaves in this run
    pc,          \* where main() is
    batches,     \* the groups of df_root.groupby(...), in iteration order
    k,           \* the batch main() is at (1-based), 0 before the loop
    queue,       \* work items submitted to the executor and not yet started
    status,      \* per row: pending, queued, inflight, returned, recorded
    total,       \* per row: Retry.total left in its running request
    instanceID,  \* per row: the instanceID of the payload built for it
    fields,      \* per row: the mapped field value of the payload built
    nextUuid,    \* the uuid4 values handed out so far
    reqIds,      \* per row: the instanceIDs of the requests the server got
    result,      \* per row: what its future holds
    terminal,    \* per row: the answer that ended its request
    outcomes,    \* per row: the outcome events process_batch logged
    pauses       \* the durations of the time.sleep calls of main() so far

vars == <<variant, config, token, sheet, nRecords, endpoint, pc, batches, k,
          queue, status, total, instanceID, fields, nextUuid, reqIds, result,
          terminal, outcomes, pauses>>

Rows == 0 .. (nRecords - 1)

(* ----------------------------- endpoint ------------------------------- *)
EndpointModes ==
    {[kind |-> "arbitrary", K |-> 0],
     [kind |-> "always500", K |-> 0],
     [kind |-> "always201", K |-> 0]}
    \cup {[kind |-> "flaky503", K |-> j] : j \in 0 .. MaxFlaky}

\* Answers that are neither a 201 nor a status of the status_forcelist;
\* 429 + RetryAfter is a 429 that carries a Retry-After header.
ClientAnswers == {200, 400, 401, 404, 429, 429 + RetryAfter}

\* Endpoints that give the same answer to every request.
ClientModes == {[kind |-> "always", K |-> a] : a \in ClientAnswers}

\* Endpoints that answer 503 to the first K requests of a row and never
\* answer a later one.
HangModes == {[kind |-> "silent", K |-> j] : j \in 0 .. MaxFlaky}

\* The answers the endpoint can give to the attemptNo-th request of a row.
Respond(ep, attemptNo) ==
    CASE ep.kind = "arbitrary" -> Responses
      [] ep.kind = "always500" -> {500}
      [] ep.kind = "always201" -> {201}
      [] ep.kind = "flaky503"  -> IF attemptNo <= ep.K THEN {503} ELSE {201}
      [] ep.kind = "always"    -> {ep.K}
      [] ep.kind = "silent"    -> IF attemptNo <= ep.K THEN {503} ELSE {}

(* ------------------------------ main() -------------------------------- *)
\* Mutant of GroupKey: the rows are numbered from 1.
GroupKeyOneBased(i, batch_size) == (i + 1) \div batch_size

\* np.arange(len(df_root)) // config['batch_size']: the group key of row i.
\* numpy's integer floor division rounds towards minus infinity, and gives
\* 0 (with a RuntimeWarning) for a divisor of 0.
GroupKey(i, batch_size) ==
    IF batch_size > 0 THEN i \div batch_size
    ELSE IF batch_size = 0 THEN 0
    ELSE 0 - ((i + (0 - batch_size) - 1) \div (0 - batch_size))

\* The rows of group g, in row order.
RECURSIVE RowsOfGroup(_, _, _, _)
RowsOfGroup(i, n, g, batch_size) ==
    IF i >= n THEN <<>>
    ELSE (IF GroupKey(i, batch_size) = g THEN <<i>> ELSE <<>>)
         \o RowsOfGroup(i + 1, n, g, batch_size)

\* df_root.groupby(keys): one group per distinct key, in increasing key order.
RECURSIVE GroupsFrom(_, _, _)
GroupsFrom(g, n, batch_size) ==
    IF \A i \in 0 .. (n - 1) : GroupKey(i, batch_size) < g THEN <<>>
    ELSE (IF \E i \in 0 .. (n - 1) : GroupKey(i, batch_size) = g
          THEN <<RowsOfGroup(0, n, g, batch_size)>> ELSE <<>>)
         \o GroupsFrom(g + 1, n, batch_size)

\* The smallest group key, 0 when there are no rows.
MinKey(n, batch_size) ==
    IF n = 0 THEN 0
    ELSE LET keys == {GroupKey(i, batch_size) : i \in 0 .. (n - 1)}
         IN  CHOOSE g \in keys : \A h \in keys : g <= h

GroupBy(n, batch_size) == GroupsFrom(MinKey(n, batch_size), n, batch_size)

SeqToSet(s) == {s[i] : i \in 1 .. Len(s)}

CurrentBatch == IF k >= 1 /\ k <= Len(batches) THEN batches[k] ELSE <<>>

\* The inputs of a well-configured run: both variants, a valid config.json
\* without the optional settings, a resolvable token, a complete sheet.
Normal ==
    [variants |-> {"main", "mainv2"},
     records |-> 0 .. MaxRecords,
     endpoints |-> EndpointModes,
     batchSizes |-> 1 .. MaxBatch,
     retryOptions |-> {DefaultMaxRetries},
     sleepOptions |-> {ABSENT},
     tokens |-> {TRUE},
     sheets |-> {"full"}]

\* The state when main() starts, with its inputs drawn from the sets in.
Setup(in) ==
    /\ variant \in in.variants
    /\ config \in [batch_size : in.batchSizes,
                   concurrency_level : 1 .. MaxConc,
                   max_retries : in.retryOptions,
                   dynamic_sleep_interval : in.sleepOptions]
    /\ token \in in.tokens
    /\ sheet \in in.sheets
    /\ nRecords \in in.records
    /\ endpoint \in in.endpoints
    /\ pc = "main"
    /\ batches = <<>>
    /\ k = 0
    /\ queue = <<>>
    /\ status = [r \in Rows |-> "pending"]
    /\ total = [r \in Rows |-> 0]
    /\ instanceID = [r \in Rows |-> 0]
    /\ fields = [r \in Rows |-> "unbuilt"]
    /\ nextUuid = 0
    /\ reqIds = [r \in Rows |-> <<>>]
    /\ result = [r \in Rows |-> UNSET]
    /\ terminal = [r \in Rows |-> UNSET]
    /\ outcomes = [r \in Rows |-> <<>>]
    /\ pauses = <<>>

\* retryOptions are the values config.json may give its max_retries option.
InitWith(retryOptions) ==
    Setup([Normal EXCEPT !.retryOptions = retryOptions])

\* config.json leaves max_retries at the documented default.
Init == InitWith({DefaultMaxRetries})

\* config.json sets max_retries.
InitCfg == InitWith(0 .. MaxCfgRetries)

\* Whether main() gets past its token: get_api_token of main.py raises a
\* ValueError for a key that is not in the api_token_map; mainv2.py takes
\* os.getenv("API_TOKEN") as it is.
TokenAccepted(v, tok) == v = "mainv2" \/ tok

\* main(): the token, then the groupby of the for statement; the loop body
\* starts on the first group, or the loop ends at once when there is none.
StartLoop ==
    /\ pc = "main"
    /\ IF ~TokenAccepted(variant, token)
       THEN /\ pc' = "fatal"
            /\ UNCHANGED <<batches, k>>
       ELSE /\ batches' = GroupBy(nRecords, config.batch_size)
            /\ IF Len(batches') = 0
               THEN /\ pc' = "done"
                    /\ k' = 0
               ELSE /\ pc' = "submit"
                    /\ k' = 1
    /\ UNCHANGED <<variant, config, token, sheet, nRecords, endpoint, queue, status, total,
                   instanceID, fields, nextUuid, reqIds, result, terminal, outcomes, pauses>>

(* -------------------------- process_batch() --------------------------- *)
\* Mutant of uuid4: the identifier is made once and used for every payload.
uuid4Once == IF nextUuid = 0 THEN nextUuid + 1 ELSE nextUuid

\* uuid.uuid4(): a value no earlier call returned.
uuid4 == nextUuid + 1

\* The next row of batch_df.iterrows() that has no future yet.
NextToSubmit(b) ==
    LET left == {i \in 1 .. Len(b) : status[b[i]] = "pending"}
    IN  b[CHOOSE i \in left : \A j \in left : i <= j]

\* The cell of row r in a mapped column: the "nan" sheet has empty cells in
\* its even rows.
Cell(sh, r) == IF sh = "nan" /\ r % 2 = 0 THEN "NaN" ELSE "value"

\* safe_str(value): '' for a NaN, str(value) otherwise.
safe_str(value) == IF value = "NaN" THEN "" ELSE value

\* The dict comprehension: create_payload(row, ...) then executor.submit(...)
\* for the next row; after the last row the as_completed loop starts.
\* parent_row['...'] raises a KeyError when the sheet lacks the column: the
\* exception leaves process_batch and main().
Submit ==
    /\ pc = "submit"
    /\ \E i \in 1 .. Len(CurrentBatch) : status[CurrentBatch[i]] = "pending"
    /\ LET r == NextToSubmit(CurrentBatch)
       IN  IF sheet = "nocolumn"
           THEN /\ pc' = "crashed"
                /\ UNCHANGED <<instanceID, fields, nextUuid, status, queue>>
           ELSE /\ instanceID' = [instanceID EXCEPT ![r] = uuid4]
                /\ fields' = [fields EXCEPT ![r] = safe_str(Cell(sheet, r))]
                /\ nextUuid' = uuid4
                /\ status' = [status EXCEPT ![r] = "queued"]
                /\ queue' = Append(queue, r)
                /\ pc' = IF \A i \in 1 .. Len(CurrentBatch) :
                               status'[CurrentBatch[i]] # "pending"
                         THEN "collect" ELSE "submit"
    /\ UNCHANGED <<variant, config, token, sheet, nRecords, endpoint, batches, k, total,
                   reqIds, result, terminal, outcomes, pauses>>

InFlight == {r \in Rows : status[r] = "inflight"}

\* Mutant of WorkerFree: a pool that starts a thread for every work item.
WorkerAlways == TRUE

\* Mutant of WorkerFree: the pool keeps one of its workers idle.
WorkerOneIdle == Cardinality(InFlight) < config.concurrency_level - 1

\* ThreadPoolExecutor(max_workers=...): a worker thread is there for the
\* next work item.
WorkerFree == Cardinality(InFlight) < config.concurrency_level

\* The retry limit send_request_with_retry runs with: process_batch passes
\* neither max_retries nor backoff_factor, so the defaults apply.
RetryLimit == DefaultMaxRetries

\* A worker takes the oldest work item and enters send_request_with_retry:
\* Retry(total=max_retries, ...).
StartRequest ==
    /\ queue # <<>>
    /\ WorkerFree
    /\ LET r == Head(queue)
       IN  /\ status' = [status EXCEPT ![r] = "inflight"]
           /\ total' = [total EXCEPT ![r] = RetryLimit]
    /\ queue' = Tail(queue)
    /\ UNCHANGED <<variant, config, token, sheet, nRecords, endpoint, pc, batches, k,
                   instanceID, fields, nextUuid, reqIds, result, terminal, outcomes, pauses>>

(* --------------------- send_request_with_retry() ---------------------- *)
\* Mutant of IsRetry: 503 is missing from the status_forcelist.
IsRetryNo503(resp) == resp = ERR \/ resp \in (status_forcelist \ {503})

\* Retry.is_retry for a POST: a transport error or a status of the
\* status_forcelist.
IsRetry(resp) == resp = ERR \/ resp \in status_forcelist

\* Retry.is_retry for an answer with a Retry-After header: retried, while
\* Retry.total is not 0, when its status is one of 413, 429, 503.
IsRetryAfter(resp, t) ==
    t # 0 /\ HasRetryAfter(resp) /\ Status(resp) \in RETRY_AFTER_STATUS_CODES

\* Mutant of IsExhausted: the last retry is not made.
IsExhaustedEarly(t) == t <= 0

\* Retry.is_exhausted, after the decrement of Retry.increment.
IsExhausted(t) == t < 0

\* Mutant of Returned: mainv2 without its raise_for_status() call.
ReturnedAsIs(v, resp) == resp

\* Mutant of Returned: mainv2 raises for every status but 200 OK.
ReturnedOnly200(v, resp) ==
    IF v = "mainv2" /\ resp # 200 THEN NONE ELSE resp

\* What send_request_with_retry returns for a response that is not retried.
\* mainv2 calls response.raise_for_status(), which raises for 4xx and 5xx.
Returned(v, resp) ==
    IF v = "mainv2" /\ resp >= 400 THEN NONE ELSE resp

\* One attempt of session.post for row r: the request goes out with the
\* body built before the submit, and the endpoint answers resp.
Attempt(r, resp) ==
    /\ status[r] = "inflight"
    /\ resp \in Respond(endpoint, Len(reqIds[r]) + 1)
    /\ reqIds' = [reqIds EXCEPT ![r] = Append(@, instanceID[r])]
    /\ IF IsRetry(resp) \/ IsRetryAfter(resp, total[r])
       THEN IF IsExhausted(total[r] - 1)
            THEN \* MaxRetryError -> requests.RequestException -> None
                 /\ total' = [total EXCEPT ![r] = @ - 1]
                 /\ result' = [result EXCEPT ![r] = NONE]
                 /\ terminal' = [terminal EXCEPT ![r] = resp]
                 /\ status' = [status EXCEPT ![r] = "returned"]
            ELSE /\ total' = [total EXCEPT ![r] = @ - 1]
                 /\ UNCHANGED <<result, terminal, status>>
       ELSE /\ result' = [result EXCEPT ![r] = Returned(variant, Status(resp))]
            /\ terminal' = [terminal EXCEPT ![r] = resp]
            /\ status' = [status EXCEPT ![r] = "returned"]
            /\ UNCHANGED total
    /\ UNCHANGED <<variant, config, token, sheet, nRecords, endpoint, pc, batches, k, queue,
                   instanceID, fields, nextUuid, outcomes, pauses>>

(* ---------------------- the as_completed loop ------------------------- *)
\* bool(response): None is falsy, and Response.__bool__ is Response.ok.
Truthy(res) == res # NONE /\ res < 400

\* Mutant of Classify: any response that is ok counts as a success.
ClassifyTruthy(res) == IF Truthy(res) THEN "Success" ELSE "Failure"

\* Mutant of Classify: 200 OK is the status taken as success.
ClassifyOk200(res) ==
    IF Truthy(res) /\ res = 200 THEN "Success" ELSE "Failure"

\* if response and response.status_code == 201: ... else: ...
Classify(res) ==
    IF Truthy(res) /\ res = CREATED THEN "Success" ELSE "Failure"

\* Mutant of Yields: a finished future is yielded again after its outcome
\* was logged.
YieldsAgain(r) == status[r] \in {"returned", "recorded"}

\* as_completed yields every finished future once.
Yields(r) == status[r] = "returned"

\* Mutant of AfterOutcome: a failed submission ends the run.
AbortOnFailure(o) == IF o = "Failure" THEN "done" ELSE "collect"

\* The loop goes on after a logged outcome, whatever it is.
AfterOutcome(o) == "collect"

RecordOutcome(r) ==
    /\ pc = "collect"
    /\ r \in SeqToSet(CurrentBatch)
    /\ Yields(r)
    /\ outcomes' = [outcomes EXCEPT ![r] = Append(@, Classify(result[r]))]
    /\ status' = [status EXCEPT ![r] = "recorded"]
    /\ pc' = AfterOutcome(Classify(result[r]))
    /\ UNCHANGED <<variant, config, token, sheet, nRecords, endpoint, batches, k, queue,
                   total, instanceID, fields, nextUuid, reqIds, result, terminal, pauses>>

\* logging.error(f'Request failed: {e}') of the except branch of
\* send_request_with_retry, which is the branch that returns None: the
\* events of this kind about row r, while its future exists.
RequestFailedEvents(r) == IF result[r] = NONE THEN 1 ELSE 0

\* The log events about row r: those of send_request_with_retry and the
\* 'Submission success' / 'Submission failed' events of process_batch.
LogEvents(r) == RequestFailedEvents(r) + Len(outcomes[r])

\* Mutant of BatchFinished: process_batch returns once every row is
\* submitted, without waiting for the futures.
BatchSubmitted(b) == \A i \in 1 .. Len(b) : status[b[i]] # "pending"

\* The as_completed loop has yielded every future, and the executor's
\* shutdown(wait=True) at the end of the with block has nothing to wait for.
BatchFinished(b) == \A i \in 1 .. Len(b) : status[b[i]] = "recorded"

\* What is left of a per-row local of process_batch when it returns.
Dropped(f, b, empty) ==
    [r \in Rows |-> IF r \in SeqToSet(b) THEN empty ELSE f[r]]

\* process_batch returns: its futures, and the responses and Retry objects
\* they hold, are gone with it.
EndBatch ==
    /\ pc = "collect"
    /\ BatchFinished(CurrentBatch)
    /\ pc' = "sleep"
    /\ result' = Dropped(result, CurrentBatch, UNSET)
    /\ terminal' = Dropped(terminal, CurrentBatch, UNSET)
    /\ total' = Dropped(total, CurrentBatch, 0)
    /\ UNCHANGED <<variant, config, token, sheet, nRecords, endpoint, batches, k, queue,
                   status, instanceID, fields, nextUuid, reqIds, outcomes, pauses>>

\* Mutant of SleepInterval: the option of config.json is ignored.
SleepIntervalIgnored(cfg) == DefaultSleep

\* config.get('dynamic_sleep_interval', 5)
SleepInterval(cfg) ==
    IF cfg.dynamic_sleep_interval = ABSENT THEN DefaultSleep
    ELSE cfg.dynamic_sleep_interval

\* time.sleep(config.get('dynamic_sleep_interval', 5)), then the next group.
Sleep ==
    /\ pc = "sleep"
    /\ pauses' = Append(pauses, SleepInterval(config))
    /\ IF k < Len(batches)
       THEN /\ k' = k + 1
            /\ pc' = "submit"
       ELSE /\ k' = k
            /\ pc' = "done"
    /\ UNCHANGED <<variant, config, token, sheet, nRecords, endpoint, batches, queue,
                   status, total, instanceID, fields, nextUuid, reqIds, result, terminal,
                   outcomes>>

Next ==
    \/ StartLoop
    \/ Submit
    \/ StartRequest
    \/ \E r \in Rows :
          \E resp \in Respond(endpoint, Len(reqIds[r]) + 1) : Attempt(r, resp)
    \/ \E r \in Rows : RecordOutcome(r)
    \/ EndBatch
    \/ Sleep

Spec == Init /\ [][Next]_vars

\* The same program run with a config.json that sets max_retries.
SpecCfg == InitCfg /\ [][Next]_vars

\* config.json has a batch_size below 1.
InitBadBatch == Setup([Normal EXCEPT !.batchSizes = (0 - MaxBadBatch) .. 0])
SpecBadBatch == InitBadBatch /\ [][Next]_vars

\* The API token cannot be resolved: the key is not in the api_token_map
\* (main.py), the API_TOKEN environment variable is not set (mainv2.py).
InitNoToken == Setup([Normal EXCEPT !.tokens = {FALSE}])
SpecNoToken == InitNoToken /\ [][Next]_vars

\* config.json may set dynamic_sleep_interval; the endpoint accepts every
\* request or rejects every request.
InitPace ==
    Setup([Normal EXCEPT
             !.sleepOptions = {ABSENT} \cup (0 .. MaxSleep),
             !.endpoints = {[kind |-> "always201", K |-> 0],
                            [kind |-> "always500", K |-> 0]}])
SpecPace == InitPace /\ [][Next]_vars

\* The spreadsheet may have empty cells in a mapped column, or lack a mapped
\* column altogether.
InitSheet ==
    Setup([Normal EXCEPT
             !.sheets = {"full", "nan", "nocolumn"},
             !.endpoints = {[kind |-> "always201", K |-> 0],
                            [kind |-> "always500", K |-> 0]}])
SpecSheet == InitSheet /\ [][Next]_vars

\* The endpoint rejects every request with the same answer, which is
\* neither a 201 nor a status of the status_forcelist.
InitClient == Setup([Normal EXCEPT !.endpoints = ClientModes])
SpecClient == InitClient /\ [][Next]_vars

\* The threads of the program are scheduled fairly, and every request a
\* worker makes gets its answer or its transport error: a step that can be
\* taken is taken in the end.
InitFair == Setup([Normal EXCEPT !.records = 0 .. MaxFairRecords])
FairSpec == InitFair /\ [][Next]_vars /\ WF_vars(Next)

\* An endpoint that may stop answering. session.post(...) is called without
\* a timeout, so a request that gets no answer never returns: the model has
\* no step for it. The threads of the program are scheduled fairly.
InitHang ==
    Setup([Normal EXCEPT !.endpoints = HangModes \cup {[kind |-> "always201", K |-> 0]}])
SpecHang == InitHang /\ [][Next]_vars /\ WF_vars(Next)

(* ============================== claims ================================ *)
Done(r) == status[r] \in {"returned", "recorded"}

RECURSIVE OutcomeCount(_)
OutcomeCount(n) ==
    IF n = 0 THEN 0 ELSE Len(outcomes[n - 1]) + OutcomeCount(n - 1)

\* C1: no row ever has two outcome events, and when main() has ended every
\* row has exactly one, so that the number of outcome events is the number
\* of rows.
C1_ExactlyOneOutcome ==
    /\ \A r \in Rows : Len(outcomes[r]) <= 1
    /\ pc = "done" =>
          /\ \A r \in Rows : Len(outcomes[r]) = 1
          /\ OutcomeCount(nRecords) = nRecords

C1_Witness ==
    /\ pc = "done"
    /\ nRecords >= 3
    /\ \E r \in Rows : outcomes[r] = <<"Success">> /\ Len(reqIds[r]) >= 2
    /\ \E r \in Rows : outcomes[r] = <<"Failure">> /\ Len(reqIds[r]) = 4

RECURSIVE SumLen(_, _)
SumLen(bs, n) == IF n = 0 THEN 0 ELSE Len(bs[n]) + SumLen(bs, n - 1)

\* C2: once main() has grouped the N rows by index // batch_size there are
\* ceil(N / B) batches; batch j holds the rows (j-1)*B, (j-1)*B + 1, ... in
\* that order, at most B of them and exactly B unless it is the last one,
\* and the batch sizes add up to N.
C2_Partition ==
    pc # "main" =>
       LET B == config.batch_size
           N == nRecords
       IN  /\ Len(batches) = (N + B - 1) \div B
           /\ SumLen(batches, Len(batches)) = N
           /\ \A j \in 1 .. Len(batches) :
                 /\ Len(batches[j]) >= 1
                 /\ Len(batches[j]) <= B
                 /\ j < Len(batches) => Len(batches[j]) = B
                 /\ \A i \in 1 .. Len(batches[j]) :
                       batches[j][i] = (j - 1) * B + (i - 1)
           /\ k <= Len(batches)

C2_Witness ==
    /\ pc # "main"
    /\ Len(batches) = 2
    /\ Len(batches[1]) = config.batch_size
    /\ Len(batches[2]) < config.batch_size

\* C3: a row of a later batch is handed to the worker pool only when every
\* row of every earlier batch has its outcome, and main() gets to its sleep
\* only when every row of the current batch has.
C3_SequentialBatches ==
    /\ \A j1 \in 1 .. Len(batches) : \A j2 \in 1 .. Len(batches) :
          j1 < j2 =>
             \A r1 \in SeqToSet(batches[j1]) : \A r2 \in SeqToSet(batches[j2]) :
                status[r2] # "pending" =>
                   status[r1] = "recorded" /\ Len(outcomes[r1]) = 1
    /\ pc = "sleep" =>
          \A r \in SeqToSet(CurrentBatch) : status[r] = "recorded"

C3_Witness ==
    /\ k = 2
    /\ Len(batches[1]) >= 2
    /\ \E r \in SeqToSet(batches[2]) : status[r] = "inflight"

\* C4: the number of requests in flight never exceeds concurrency_level.
C4_ConcurrencyBound ==
    Cardinality(InFlight) <= config.concurrency_level

C4_Witness ==
    /\ Len(CurrentBatch) > config.concurrency_level
    /\ Cardinality(InFlight) = config.concurrency_level
    /\ queue # <<>>

\* C5: against an endpoint that answers 503 to the first K requests of a
\* row and 201 to the next, with K below the retry limit, a row never has
\* more than K + 1 requests, its request ends after exactly K + 1, the
\* answer that ends it is the 201 response, and its outcome is Success.
C5_RetryThenSuccess ==
    (endpoint.kind = "flaky503" /\ endpoint.K < RetryLimit) =>
       \A r \in Rows :
          /\ Len(reqIds[r]) <= endpoint.K + 1
          /\ Done(r) => Len(reqIds[r]) = endpoint.K + 1
          /\ terminal[r] \in {UNSET, 201}
          /\ status[r] = "recorded" => outcomes[r] = <<"Success">>

C5_Witness ==
    /\ endpoint.kind = "flaky503"
    /\ endpoint.K = 2
    /\ \E r \in Rows :
          /\ status[r] = "recorded"
          /\ Len(reqIds[r]) = 3
          /\ outcomes[r] = <<"Success">>

\* C6: against an endpoint that answers 500 to every request, a row never
\* has more than (retry limit) + 1 requests, its request ends after exactly
\* that many without a response to return, and its outcome is Failure.
C6_RetryExhaustion ==
    endpoint.kind = "always500" =>
       \A r \in Rows :
          /\ Len(reqIds[r]) <= RetryLimit + 1
          /\ Done(r) => Len(reqIds[r]) = RetryLimit + 1
          /\ result[r] \in {UNSET, NONE}
          /\ status[r] = "recorded" => outcomes[r] = <<"Failure">>

C6_Witness ==
    /\ endpoint.kind = "always500"
    /\ pc = "done"
    /\ nRecords >= 2
    /\ \A r \in Rows : Len(reqIds[r]) = 4 /\ outcomes[r] = <<"Failure">>

\* C7: with max_retries = R in config.json, an endpoint that answers 500 to
\* every request gets exactly R + 1 requests per row.
C7_ConfiguredRetryLimit ==
    endpoint.kind = "always500" =>
       \A r \in Rows : Done(r) => Len(reqIds[r]) = config.max_retries + 1

\* C8: when process_batch logs a row's outcome, it is Success exactly when
\* the answer that ended the row's request is a 201 response; any other
\* status, and a transport error, gives Failure.
C8_SuccessIff201 ==
    \A r \in Rows :
       (status[r] = "recorded" /\ terminal[r] # UNSET) =>
          /\ outcomes[r] = <<"Success">> <=> terminal[r] = 201
          /\ terminal[r] # 201 => outcomes[r] = <<"Failure">>

C8_Witness ==
    /\ \E r \in Rows : /\ status[r] = "recorded"
                        /\ terminal[r] = 200
                        /\ outcomes[r] = <<"Failure">>
    /\ \E r \in Rows : /\ status[r] = "recorded"
                        /\ terminal[r] = ERR
                        /\ outcomes[r] = <<"Failure">>

\* The batch (1-based) that row r belongs to.
BatchOf(r) == CHOOSE j \in 1 .. Len(batches) : r \in SeqToSet(batches[j])

\* C9: once a row has failed, every row of its batch has still been handed
\* to the worker pool, process_batch returns only when each of them got a
\* request and an outcome, and main() ends only after the last batch, when
\* every row of every batch got a request and an outcome.
C9_FailureIsolation ==
    \A f \in Rows :
       outcomes[f] = <<"Failure">> =>
          /\ \A r \in SeqToSet(batches[BatchOf(f)]) :
                /\ status[r] # "pending"
                /\ (BatchOf(f) < k \/ pc \in {"sleep", "done"}) =>
                      /\ Len(reqIds[r]) >= 1
                      /\ status[r] = "recorded"
                      /\ Len(outcomes[r]) = 1
          /\ pc = "done" =>
                /\ k = Len(batches)
                /\ \A r \in Rows :
                      /\ Len(reqIds[r]) >= 1
                      /\ status[r] = "recorded"
                      /\ Len(outcomes[r]) = 1

C9_Witness ==
    /\ pc = "done"
    /\ Len(batches) = 2
    /\ Len(batches[1]) = 2
    /\ outcomes[0] = <<"Failure">>
    /\ outcomes[1] = <<"Success">>
    /\ outcomes[2] = <<"Success">>

\* C10 as stated: any two requests the server gets, of one row or of two,
\* carry different instance identifiers.
C10_FreshIdPerAttempt ==
    \A r1 \in Rows : \A r2 \in Rows :
       \A i \in 1 .. Len(reqIds[r1]) : \A j \in 1 .. Len(reqIds[r2]) :
          (r1 # r2 \/ i # j) => reqIds[r1][i] # reqIds[r2][j]

\* C10 as amended: every request of a row carries the one instance
\* identifier of the payload built for that row, and requests of different
\* rows carry different identifiers.
C10_OneIdPerRecord ==
    /\ \A r \in Rows : \A i \in 1 .. Len(reqIds[r]) :
          reqIds[r][i] = instanceID[r]
    /\ \A r1 \in Rows : \A r2 \in Rows :
          (r1 # r2 /\ reqIds[r1] # <<>> /\ reqIds[r2] # <<>>) =>
             instanceID[r1] # instanceID[r2]

C10_Witness ==
    \E r1 \in Rows : \E r2 \in Rows :
       r1 # r2 /\ Len(reqIds[r1]) >= 2 /\ Len(reqIds[r2]) >= 1

\* C11: with a batch_size below 1 no batch is formed, no row is handed to
\* the worker pool and no request is sent.
C11_InvalidBatchSizeFailsFast ==
    config.batch_size < 1 =>
       /\ batches = <<>>
       /\ \A r \in Rows : status[r] = "pending" /\ reqIds[r] = <<>>

\* C12: when the API token cannot be resolved, the run never gets to the
\* submission of a row, and no request is sent for any row.
C12_UnresolvedTokenIsFatal ==
    ~token =>
       /\ pc # "submit"
       /\ \A r \in Rows : status[r] = "pending" /\ reqIds[r] = <<>>

\* C13: every HTTP attempt ends within a bounded time, so a batch whose rows
\* are all submitted always gets to the end of its as_completed loop.
C13_BatchBarrierCompletes == (pc = "collect") ~> (pc = "sleep")

\* C14: main() pauses exactly once after each batch, the last one included,
\* for dynamic_sleep_interval seconds (5 when config.json has no such
\* option): a pause follows the end of its batch, the batch main() is at
\* has k - 1 pauses before it, and a finished run has made one pause per
\* batch, ceil(nRecords / batch_size) in all.
C14_OnePausePerBatch ==
    /\ \A j \in 1 .. Len(pauses) :
          /\ pauses[j] = IF config.dynamic_sleep_interval = ABSENT
                         THEN 5 ELSE config.dynamic_sleep_interval
          /\ j <= Len(batches)
          /\ \A i \in 1 .. Len(batches[j]) : status[batches[j][i]] = "recorded"
    /\ pc = "main" => pauses = <<>>
    /\ pc \in {"submit", "collect", "sleep"} => Len(pauses) = k - 1
    /\ pc = "done" =>
          /\ Len(pauses) = Len(batches)
          /\ Len(pauses) = (nRecords + config.batch_size - 1) \div config.batch_size

\* A finished run of 3 rows in batches of 2 with a configured pause: two
\* pauses, the second after the last, shorter batch.
C14_Witness ==
    /\ pc = "done"
    /\ nRecords = 3
    /\ config.batch_size = 2
    /\ config.dynamic_sleep_interval = 1
    /\ pauses = <<1, 1>>

\* C15: against an endpoint that answers 201 to every request, every row
\* gets exactly one request and the outcome Success, never a Failure, the
\* requests carry pairwise distinct instance IDs, and a finished run has
\* logged nRecords times Success with nRecords requests.
C15_HappyPath ==
    endpoint.kind = "always201" =>
       LET sent == {r \in Rows : reqIds[r] # <<>>}
       IN  /\ \A r \in Rows :
                 /\ Len(reqIds[r]) <= 1
                 /\ outcomes[r] \in {<<>>, <<"Success">>}
                 /\ status[r] = "recorded" =>
                       Len(reqIds[r]) = 1 /\ outcomes[r] = <<"Success">>
           /\ Cardinality({reqIds[r][1] : r \in sent}) = Cardinality(sent)
           /\ pc = "done" =>
                 /\ sent = Rows
                 /\ \A r \in Rows : outcomes[r] = <<"Success">>

\* A finished run of 3 rows against the always-201 endpoint.
C15_Witness ==
    /\ endpoint.kind = "always201"
    /\ pc = "done"
    /\ nRecords = 3
    /\ \A r \in Rows : outcomes[r] = <<"Success">> /\ Len(reqIds[r]) = 1

\* C16: a row whose mapped field is empty (NaN) or not in the record at all
\* never ends the run: its payload is built with the field as the empty
\* string, and a finished run has one outcome for every row.
C16_MalformedRecordNotFatal ==
    /\ pc # "crashed"
    /\ \A r \in Rows :
          (status[r] # "pending" /\ (sheet = "nocolumn" \/ Cell(sheet, r) = "NaN"))
             => fields[r] = ""
    /\ pc = "done" => \A r \in Rows : Len(outcomes[r]) = 1

\* C17: when the answer to the first request of a row has a status that is
\* neither 201 nor one of 500, 502, 503, 504, the row gets exactly one
\* request and the outcome Failure, in both variants.
C17_ClientErrorNotRetried ==
    (endpoint.kind = "always"
       /\ Status(endpoint.K) \notin (status_forcelist \cup {CREATED})) =>
       \A r \in Rows :
          /\ Len(reqIds[r]) <= 1
          /\ reqIds[r] # <<>> => status[r] \in {"returned", "recorded"}
          /\ status[r] = "recorded" => outcomes[r] = <<"Failure">>

\* The rows of the running process_batch call whose outcome is logged.
Logged(r) == status[r] = "recorded" /\ result[r] # UNSET

\* C18 as stated: whatever the outcome of a row, the log has exactly one
\* event about it.
C18_OneLogEventPerRecord == \A r \in Rows : Logged(r) => LogEvents(r) = 1

\* C18 as amended: process_batch logs exactly one outcome event per row,
\* and the log has a second event about the row, 'Request failed', exactly
\* when its request ended in an exception: retries exhausted or a transport
\* error, and in mainv2 also any answer with a 4xx or 5xx status.
C18_OutcomeEventPlusRequestFailed ==
    \A r \in Rows :
       Logged(r) =>
          /\ Len(outcomes[r]) = 1
          /\ LogEvents(r) =
                IF \/ terminal[r] = ERR
                   \/ terminal[r] \in status_forcelist
                   \/ variant = "mainv2" /\ terminal[r] >= 400
                THEN 2 ELSE 1

\* Two rows of a batch of mainv2.py with two log events each: one whose
\* last attempt ended in a transport error, and one that was answered 400.
C18_Witness ==
    /\ \E r \in Rows :
          Logged(r) /\ terminal[r] = ERR /\ LogEvents(r) = 2
    /\ \E r \in Rows :
          Logged(r) /\ variant = "mainv2" /\ terminal[r] = 400 /\ LogEvents(r) = 2

\* C19: with a resolvable token, a batch_size of 1 or more and requests
\* that all return, the run finishes: main() returns after all
\* ceil(nRecords / batch_size) batches, with an outcome for every row; a run
\* without rows sends no request and makes no pause.
C19_RunTerminates ==
    /\ <>(/\ pc = "done"
          /\ k = (nRecords + config.batch_size - 1) \div config.batch_size
          /\ \A r \in Rows : status[r] = "recorded")
    /\ [](nRecords = 0 => pauses = <<>> /\ nextUuid = 0 /\ queue = <<>>)

\* A finished run of 2 rows in two batches.
C19_Witness ==
    /\ pc = "done"
    /\ nRecords = 2
    /\ k = 2
    /\ \A r \in Rows : status[r] = "recorded"

OtherVariant == IF variant = "main" THEN "mainv2" ELSE "main"

\* What send_request_with_retry of variant v returns when the answer that
\* ends its request is answer.
ResultIn(v, answer) ==
    IF IsRetry(answer) THEN NONE ELSE Returned(v, Status(answer))

\* The requests a row gets from an endpoint whose answers do not vary.
ScriptRequests(ep) ==
    CASE ep.kind = "always201" -> 1
      [] ep.kind = "always500" -> DefaultMaxRetries + 1
      [] ep.kind = "flaky503"  -> IF ep.K <= DefaultMaxRetries
                                  THEN ep.K + 1 ELSE DefaultMaxRetries + 1

====
